---------------------------- MODULE Spec2Model ----------------------------
(***************************************************************************)
(* Nicotine-Reinforcement: the state-space model (src/src/model.py), its   *)
(* stability analysis (src/src/stability.py) and the one-parameter sweeps  *)
(* (src/src/bifurcation.py) as a state machine.                            *)
(*                                                                         *)
(* Numbers are held as integers in fixed units: a parameter p of the       *)
(* parameter mapping is held as p * PU, a state component or an intake     *)
(* rate x as x * YU.  A product therefore carries the product of the units *)
(* of its factors; the unit of every derived quantity is stated where it   *)
(* is computed.  NaN is one reserved integer outside every range used.     *)
(***************************************************************************)
EXTENDS Integers, Sequences, FiniteSets, TLC

\* Unit of the parameter mapping: 0.0001 (epsilon, the finest default) is 1.
PU == 10000
\* Unit of state components and intake rates: 0.1 is 1 (D_0 = 0.5 is 5).
YU == 10
\* np.nan
NaN == -999999

\* Bound: the longest parameter range a sweep is called with.
MaxLen == 2
\* Bound: the evaluations brentq makes after its two endpoint evaluations.
MaxBrentIter == 1

VARIABLES
    params,     \* model.params: the parameter mapping (name -> value)
    pre,        \* the parameter mapping when the running call was entered
    pc,         \* position of the running call
    args,       \* arguments of the running call
    loc,        \* local variables of the running call
    result,     \* what the call returned or raised
    ssMemo,     \* outcomes of steady_state seen so far (the solver is a function)
    eigMemo     \* outcomes of scipy.linalg.eig seen so far (eig is a function)

vars == <<params, pre, pc, args, loc, result, ssMemo, eigMemo>>

-----------------------------------------------------------------------------
(* Floating point with NaN *)

IsNaN(x) == x = NaN

FAdd(a, b) == IF IsNaN(a) \/ IsNaN(b) THEN NaN ELSE a + b
FSub(a, b) == IF IsNaN(a) \/ IsNaN(b) THEN NaN ELSE a - b
FMul(a, b) == IF IsNaN(a) \/ IsNaN(b) THEN NaN ELSE a * b
FNeg(a) == IF IsNaN(a) THEN NaN ELSE 0 - a
FAbs(a) == IF IsNaN(a) THEN NaN ELSE IF a < 0 THEN 0 - a ELSE a
\* a > b, a < b of two floats: False when either is NaN
FGt(a, b) == ~IsNaN(a) /\ ~IsNaN(b) /\ a > b
FLt(a, b) == ~IsNaN(a) /\ ~IsNaN(b) /\ a < b
FGe(a, b) == ~IsNaN(a) /\ ~IsNaN(b) /\ a >= b
FLe(a, b) == ~IsNaN(a) /\ ~IsNaN(b) /\ a =< b
\* Python's max(a, b): b if b > a else a
PyMax(a, b) == IF FGt(b, a) THEN b ELSE a
PyMin(a, b) == IF FLt(b, a) THEN b ELSE a

-----------------------------------------------------------------------------
(* model.py: NicotineRewardModel *)

ParamNames ==
    {"k_N", "k_on", "k_off", "k_des", "k_res", "k_D", "k_clear",
     "epsilon", "D_0", "R_T_0"}

\* _default_parameters(), in units of 1/PU
DefaultParameters ==
    [n \in ParamNames |->
        CASE n = "k_N"     -> 600
          [] n = "k_on"    -> 5000
          [] n = "k_off"   -> 1000
          [] n = "k_des"   -> 500
          [] n = "k_res"   -> 100
          [] n = "k_D"     -> 10000
          [] n = "k_clear" -> 5000
          [] n = "epsilon" -> 1
          [] n = "D_0"     -> 5000
          [] n = "R_T_0"   -> 10000]

\* Indices of the state vector [N, R_a, R_d, R_T, D]
iN == 1
iRa == 2
iRd == 3
iRT == 4
iD == 5

\* baseline_state(): [0, 0, 0, R_T_0, D_0], in units of 1/YU.  R_T_0 and D_0
\* are multiples of 1/YU in every parameter mapping it is called with here.
baseline_state(p) ==
    <<0, 0, 0, (p["R_T_0"] * YU) \div PU, (p["D_0"] * YU) \div PU>>

\* dynamics(t, y, input_func) with I = input_func(t).  Units of the result:
\* dN, dR_d, dD in 1/(PU*YU); dR_a in 1/(PU*YU*YU); dR_T in 1/(PU*PU*YU).
dynamics(p, y, I) ==
    LET N == y[iN]
        R_a == y[iRa]
        R_d == y[iRd]
        R_T == y[iRT]
        D == y[iD]
        R_available == PyMax(0, R_T - R_a - R_d)
        dN_dt == I * PU - p["k_N"] * N
        dR_a_dt == p["k_on"] * N * R_available
                   - p["k_off"] * R_a * YU
                   - p["k_des"] * R_a * YU
        dR_d_dt == p["k_des"] * R_a - p["k_res"] * R_d
        dD_dt == p["k_D"] * R_a - p["k_clear"] * D
        dR_T_dt == p["epsilon"] * (D * PU - p["D_0"] * YU)
    IN  <<dN_dt, dR_a_dt, dR_d_dt, dR_T_dt, dD_dt>>

-----------------------------------------------------------------------------
(* stability.py: StabilityAnalyzer *)

ZeroRow == [c \in 1..5 |-> 0]

\* jacobian(y, I_const): 5x5, rows and columns in state order.  Every entry
\* is in units of 1/(PU*YU).  I_const is not read.
jacobian(p, y, I_const) ==
    LET N == y[iN]
        R_a == y[iRa]
        R_d == y[iRd]
        R_T == y[iRT]
        R_available == FSub(FSub(R_T, R_a), R_d)
        row0 == [ZeroRow EXCEPT ![iN] = (0 - p["k_N"]) * YU]
        row1 == [ZeroRow EXCEPT
                    ![iN] = FMul(p["k_on"], R_available),
                    ![iRa] = FSub(FNeg(FMul(p["k_on"], N)),
                                  (p["k_off"] + p["k_des"]) * YU),
                    ![iRd] = FNeg(FMul(p["k_on"], N)),
                    ![iRT] = FMul(p["k_on"], N)]
        row2 == [ZeroRow EXCEPT ![iRa] = p["k_des"] * YU,
                                ![iRd] = (0 - p["k_res"]) * YU]
        row3 == [ZeroRow EXCEPT ![iD] = p["epsilon"] * YU]
        row4 == [ZeroRow EXCEPT ![iRa] = p["k_D"] * YU,
                                ![iD] = (0 - p["k_clear"]) * YU]
    IN  <<row0, row1, row2, row3, row4>>


\* A float as a ratio num/den: inf is 1/0, NaN is 0/0
RatNaN == [num |-> 0, den |-> 0]
Recip(a) == IF a = 0 THEN [num |-> 1, den |-> 0] ELSE [num |-> 1, den |-> a]
IsInfRat(r) == r.den = 0 /\ r.num # 0

IsFiniteMatrix(J) == \A r \in 1..5 : \A c \in 1..5 : ~IsNaN(J[r][c])

\* Whether some order of the state variables makes J triangular on the
\* variables in S: some row of S is zero off the diagonal within S, and the
\* rest is triangular in turn
RECURSIVE IsTriangular(_, _)
IsTriangular(J, S) ==
    \/ S = {}
    \/ /\ \E r \in S : \A c \in S \ {r} : J[r][c] = 0
       /\ LET r == CHOOSE r \in S : \A c \in S \ {r} : J[r][c] = 0
          IN  IsTriangular(J, S \ {r})

Spectrum(re, im) == [k \in 1..5 |-> [re |-> re[k], im |-> im[k]]]

\* What eig may return for a matrix whose eigenvalues the model does not
\* compute: a stable node, a stable focus, a saddle, a zero mode, an
\* unstable node.
Spectra ==
    {Spectrum(<<-1, -1, -1, -1, -1>>, <<0, 0, 0, 0, 0>>),
     Spectrum(<<-1, -1, -1, -1, -1>>, <<1, -1, 0, 0, 0>>),
     Spectrum(<<1, -1, -1, -1, -1>>, <<0, 0, 0, 0, 0>>),
     Spectrum(<<0, -1, -1, -1, -1>>, <<0, 0, 0, 0, 0>>),
     Spectrum(<<1, 1, 1, 1, 1>>, <<0, 0, 0, 0, 0>>)}

EigRaise == [ok |-> FALSE, eigenvalues |-> <<>>]

\* scipy.linalg.eig(J): raises on a non-finite entry (check_finite); the
\* eigenvalues of a triangular matrix are its diagonal; otherwise the
\* outcome is the library's (a spectrum, or no convergence).
eig(J) ==
    IF ~IsFiniteMatrix(J) THEN {EigRaise}
    ELSE IF IsTriangular(J, 1..5)
         THEN {[ok |-> TRUE,
                eigenvalues |-> [k \in 1..5 |-> [re |-> J[k][k], im |-> 0]]]}
         ELSE {[ok |-> TRUE, eigenvalues |-> s] : s \in Spectra} \cup {EigRaise}

SeqMax(s) ==
    CHOOSE m \in {s[k] : k \in DOMAIN s} : \A k \in DOMAIN s : s[k] =< m

\* An eigenanalysis that counts a zero real part as stable
eigenanalysisNonStrict(eigenvalues) ==
    LET real_parts == [k \in 1..5 |-> eigenvalues[k].re]
        inverse == [k \in 1..5 |-> Recip(FAbs(real_parts[k]))]
    IN  [eigenvalues |-> eigenvalues,
         timescales |-> [k \in 1..5 |-> IF IsInfRat(inverse[k]) THEN RatNaN
                                        ELSE inverse[k]],
         is_stable |-> \A k \in 1..5 : real_parts[k] =< 0,
         real_parts |-> real_parts,
         imag_parts |-> [k \in 1..5 |-> eigenvalues[k].im]]

\* eigenanalysis(y, I_const), given the eigenvalues eig returned for the
\* Jacobian (the eigenvectors are carried nowhere and left out)
eigenanalysis(eigenvalues) ==
    LET real_parts == [k \in 1..5 |-> eigenvalues[k].re]
        imag_parts == [k \in 1..5 |-> eigenvalues[k].im]
        is_stable == \A k \in 1..5 : real_parts[k] < 0
        inverse == [k \in 1..5 |-> Recip(FAbs(real_parts[k]))]
        timescales ==
            [k \in 1..5 |-> IF IsInfRat(inverse[k]) THEN RatNaN ELSE inverse[k]]
    IN  [eigenvalues |-> eigenvalues,
         timescales |-> timescales,
         is_stable |-> is_stable,
         real_parts |-> real_parts,
         imag_parts |-> imag_parts]

-----------------------------------------------------------------------------
(* The calls and their outcomes *)

NaNVec == <<NaN, NaN, NaN, NaN, NaN>>
ZeroVec == <<0, 0, 0, 0, 0>>

NoArgs ==
    [op |-> "none", y |-> ZeroVec, I_const |-> 0, param_name |-> "",
     param_range |-> <<>>, range_down |-> <<>>,
     include_upregulation |-> FALSE, track_stability |-> FALSE,
     threshold_var |-> "", threshold_value |-> 0, I_values |-> <<>>,
     t_span |-> <<0, 0>>, y0 |-> <<>>, t_eval |-> <<>>,
     continuation_result |-> <<>>]

NoLoc ==
    [param_name |-> "", param_range |-> <<>>,
     include_upregulation |-> FALSE, track_stability |-> FALSE,
     phase |-> "", i |-> 0, steady_states |-> <<>>, is_stable |-> <<>>, max_eigs |-> <<>>,
     original_param |-> <<>>, varying_input |-> FALSE, I_const |-> 0,
     up_sweep |-> <<>>, val_min |-> 0, val_max |-> 0,
     fa |-> 0, fb |-> 0, iter |-> 0, evaluated |-> {},
     D_steady |-> <<>>, R_T_steady |-> <<>>, regimes |-> <<>>, R_T_0 |-> 0,
     sol |-> <<>>, y |-> ZeroVec, eigen_results |-> <<>>,
     under |-> <<>>, overlapped |-> FALSE]

NoResult == [kind |-> "none", value |-> <<>>]
Return(v) == [kind |-> "return", value |-> v]
Raise(e) == [kind |-> "raise", value |-> e]

\* Intake rates and states the pure functions are evaluated at
Intakes == {0, 3}
DynStates ==
    {baseline_state(DefaultParameters)} \cup
    {<<N, R_a, R_d, R_T, D>> :
        N \in {0, 5}, R_a \in {0, 3}, R_d \in {0, 4}, R_T \in {5, 10}, D \in {0, 5}}

\* NicotineRewardModel(params): the defaults, updated by the given overrides
Overrides == {<<>>, [D_0 |-> 0], [k_clear |-> 0, epsilon |-> 0]}
Construct(o) ==
    [n \in ParamNames |-> IF n \in DOMAIN o THEN o[n] ELSE DefaultParameters[n]]

InitDyn ==
    /\ params \in {Construct(o) : o \in Overrides}
    /\ pre = params
    /\ pc = "idle"
    /\ args = NoArgs
    /\ loc = NoLoc
    /\ result = NoResult
    /\ ssMemo = <<>>
    /\ eigMemo = <<>>

CallBaselineState ==
    /\ pc = "idle"
    /\ pc' = "done"
    /\ args' = [NoArgs EXCEPT !.op = "baseline_state"]
    /\ result' = Return(baseline_state(params))
    /\ UNCHANGED <<params, pre, loc, ssMemo, eigMemo>>

CallDynamics ==
    /\ pc = "idle"
    /\ \E y \in DynStates \cup {baseline_state(params)}, I \in Intakes :
        /\ args' = [NoArgs EXCEPT !.op = "dynamics", !.y = y, !.I_const = I]
        /\ result' = Return(dynamics(params, y, I))
    /\ pc' = "done"
    /\ UNCHANGED <<params, pre, loc, ssMemo, eigMemo>>

CallJacobian ==
    /\ pc = "idle"
    /\ \E y \in DynStates \cup {baseline_state(params)}, I \in Intakes :
        /\ args' = [NoArgs EXCEPT !.op = "jacobian", !.y = y, !.I_const = I]
        /\ result' = Return(jacobian(params, y, I))
    /\ pc' = "done"
    /\ UNCHANGED <<params, pre, loc, ssMemo, eigMemo>>

CallEigenanalysis ==
    /\ pc = "idle"
    /\ \E y \in DynStates \cup {baseline_state(params)}, I \in Intakes :
        /\ args' = [NoArgs EXCEPT !.op = "eigenanalysis", !.y = y, !.I_const = I]
        /\ \E o \in eig(jacobian(params, y, I)) :
            result' = IF o.ok THEN Return(eigenanalysis(o.eigenvalues))
                      ELSE Raise("LinAlgError")
    /\ pc' = "done"
    /\ UNCHANGED <<params, pre, loc, ssMemo, eigMemo>>

\* What steady_state may return: fsolve's last iterate, whatever it is (a
\* state with N > 0, two states with N = 0, a non-finite vector)
yA == <<0, 0, 0, 10, 5>>
yB == <<50, 3, 15, 20, 7>>
yC == <<0, 0, 0, 11, 5>>
SolverStates == {yA, yB, yC, NaNVec}

\* Points of the default output grid (line 152)
DefaultGridPoints == 1000
\* Times are held in units of 1/TU minute, the spacing of the default grid
\* over a span of one minute
TU == DefaultGridPoints - 1

\* np.linspace(start, stop, num), for a span that is a multiple of num - 1
linspace(start, stop, num) ==
    [k \in 1..num |-> start + (k - 1) * ((stop - start) \div (num - 1))]

\* Spans, initial states and output grids simulate is called with (an
\* optional argument is <<>> for None and <<v>> for the value v)
Spans == {<<0, 200 * TU>>, <<0, 500 * TU>>}
InitialStates == {<<>>, <<<<0, 0, 0, 10, 0>>>>}
Grids == {<<>>, <<<<0, 100 * TU, 200 * TU>>>>, <<<<0, 200 * TU>>>>}

\* States an integration may end in
EndStates == {<<0, 0, 0, 9, 0>>, <<50, 3, 15, 10, 6>>}

\* Diagnostics of a solver that gave up
SolverMessages ==
    {"Required step size is less than spacing between numbers.",
     "Unexpected istate in LSODA."}

\* A solution through n output points: y0 at the first, y_end from then on
Samples(y0, y_end, n) == [k \in 1..n |-> IF k = 1 THEN y0 ELSE y_end]

\* lines 155-163, solve_ivp(..., t_eval = t_eval): a solver that reaches the
\* end of the span has a sample at every point of t_eval; one that gives up
\* reports why and has the samples it got to
solve_ivp(y0, t_eval) ==
    {[success |-> TRUE, message |-> "", t |-> t_eval,
      y |-> Samples(y0, y_end, Len(t_eval))] : y_end \in EndStates}
    \cup
    {[success |-> FALSE, message |-> m, t |-> SubSeq(t_eval, 1, n),
      y |-> Samples(y0, y_end, n)] :
        m \in SolverMessages, y_end \in EndStates, n \in {1, Len(t_eval) - 1}}

\* sol.y[c]
Component(sol, c) == [k \in 1..Len(sol.y) |-> sol.y[k][c]]

\* A simulate that returns whatever the solver got to
SimulateIgnoresFailure(sol) ==
    Return([t |-> sol.t,
            N |-> Component(sol, iN), R_a |-> Component(sol, iRa),
            R_d |-> Component(sol, iRd), R_T |-> Component(sol, iRT),
            D |-> Component(sol, iD)])

\* lines 165-176: the result of simulate for the solution sol
SimulateResult(sol) ==
    IF ~sol.success
    THEN Raise(<<"RuntimeError", "Integration failed: ", sol.message>>)
    ELSE Return([t |-> sol.t,
                 N |-> Component(sol, iN), R_a |-> Component(sol, iRa),
                 R_d |-> Component(sol, iRd), R_T |-> Component(sol, iRT),
                 D |-> Component(sol, iD)])

\* lines 148-152: the defaults of y0 and t_eval
SimulateY0(p, y0) == IF y0 = <<>> THEN baseline_state(p) ELSE y0[1]
SimulateGrid(t_span, t_eval) ==
    IF t_eval = <<>> THEN linspace(t_span[1], t_span[2], DefaultGridPoints)
    ELSE t_eval[1]

\* simulate(t_span, input_func, y0, t_eval)
CallSimulate ==
    /\ pc = "idle"
    /\ \E t_span \in Spans, y0 \in InitialStates, t_eval \in Grids :
        /\ args' = [NoArgs EXCEPT !.op = "simulate", !.t_span = t_span,
                                  !.y0 = y0, !.t_eval = t_eval]
        /\ \E sol \in solve_ivp(SimulateY0(params, y0),
                                 SimulateGrid(t_span, t_eval)) :
            /\ loc' = [NoLoc EXCEPT !.sol = sol]
            /\ result' = SimulateResult(sol)
    /\ pc' = "done"
    /\ UNCHANGED <<params, pre, ssMemo, eigMemo>>

\* lines 216-227: the span of the warm-up simulation
WarmUpSpan(include_upregulation) ==
    IF include_upregulation THEN <<0, 100000 * TU>> ELSE <<0, 500 * TU>>

\* lines 216-232, steady_state(I_const, include_upregulation): the warm-up
\* simulation from the baseline, then fsolve from its last sample; nothing
\* catches what simulate raises
CallSteadyState ==
    /\ pc = "idle"
    /\ \E I_const \in Intakes, include_upregulation \in BOOLEAN :
        /\ args' = [NoArgs EXCEPT !.op = "steady_state", !.I_const = I_const,
                                  !.include_upregulation = include_upregulation]
        /\ \E sol \in solve_ivp(SimulateY0(params, <<>>),
                                 SimulateGrid(WarmUpSpan(include_upregulation), <<>>)) :
            /\ loc' = [NoLoc EXCEPT !.sol = sol]
            /\ IF SimulateResult(sol).kind = "raise"
               THEN result' = SimulateResult(sol)
               ELSE \E y_ss \in SolverStates : result' = Return(y_ss)
    /\ pc' = "done"
    /\ UNCHANGED <<params, pre, ssMemo, eigMemo>>

\* A classification that counts a zero real part as stable
classifyNonStrict(eigen_results) ==
    IF \A k \in 1..5 : eigen_results.real_parts[k] =< 0
    THEN IF \E k \in 1..5 : eigen_results.imag_parts[k] # 0
         THEN "Stable focus (with oscillatory modes)"
         ELSE "Stable node"
    ELSE IF \A k \in 1..5 : eigen_results.real_parts[k] > 0
    THEN "Unstable node"
    ELSE "Saddle (mixed stability)"

\* classify_fixed_point(y, I_const), given the record eigenanalysis returned
classify_fixed_point(eigen_results) ==
    LET real_parts == eigen_results.real_parts
        imag_parts == eigen_results.imag_parts
    IN  IF \A k \in 1..5 : real_parts[k] < 0
        THEN IF \E k \in 1..5 : imag_parts[k] # 0
             THEN "Stable focus (with oscillatory modes)"
             ELSE "Stable node"
        ELSE IF \A k \in 1..5 : real_parts[k] > 0
        THEN "Unstable node"
        ELSE "Saddle (mixed stability)"

\* classify_fixed_point: the failure of eig inside eigenanalysis is not caught
CallClassifyFixedPoint ==
    /\ pc = "idle"
    /\ \E y \in DynStates \cup {baseline_state(params)}, I \in Intakes :
        /\ args' = [NoArgs EXCEPT !.op = "classify_fixed_point", !.y = y,
                                  !.I_const = I]
        /\ \E o \in eig(jacobian(params, y, I)) :
            IF o.ok
            THEN /\ loc' = [loc EXCEPT
                              !.eigen_results = eigenanalysis(o.eigenvalues)]
                 /\ result' = Return(classify_fixed_point(loc'.eigen_results))
            ELSE /\ loc' = loc
                 /\ result' = Raise("LinAlgError")
    /\ pc' = "done"
    /\ UNCHANGED <<params, pre, ssMemo, eigMemo>>

NextDyn ==
    \/ CallBaselineState
    \/ CallDynamics
    \/ CallJacobian
    \/ CallEigenanalysis
    \/ CallClassifyFixedPoint
    \/ CallSimulate
    \/ CallSteadyState

SpecDyn == InitDyn /\ [][NextDyn]_vars

-----------------------------------------------------------------------------
(* Solutions of dy/dt = dynamics(t, y, input_func) without nicotine *)

\* Bound: how many grid steps below zero R_T is followed.
MaxBelow == 2

\* States a solution is started from: no nicotine, no bound receptor, D at
\* or below D_0
FlowStates ==
    {baseline_state(DefaultParameters)} \cup
    {<<0, 0, 0, R_T, D>> : R_T \in {5, 8, 10}, D \in {0, 3, 5}}

Sign(x) == IF x > 0 THEN 1 ELSE IF x < 0 THEN 0 - 1 ELSE 0

\* simulate(t_span, lambda t: 0.0, y0): the solution starts at y0
InitFlow ==
    /\ params = DefaultParameters
    /\ pre = params
    /\ pc = "flow"
    /\ \E y0 \in FlowStates :
        /\ args = [NoArgs EXCEPT !.op = "simulate", !.y = y0, !.I_const = 0]
        /\ loc = [NoLoc EXCEPT !.y = y0]
    /\ result = NoResult
    /\ ssMemo = <<>>
    /\ eigMemo = <<>>

\* The solution on the grid of 1/YU: a component stays where its derivative
\* is zero and otherwise crosses to the next grid value in the direction of
\* its derivative, one or several components at a time.  With N = R_a =
\* R_d = 0 and no intake the first three derivatives are zero, and the
\* signs of dR_T/dt and dD/dt depend on D alone.
FlowStep ==
    /\ pc = "flow"
    /\ loc.y[iRT] > 0 - MaxBelow
    /\ LET dydt == dynamics(params, loc.y, args.I_const)
           moving == {c \in 1..5 : dydt[c] # 0}
       IN  \E cs \in SUBSET moving :
            /\ cs # {}
            /\ loc' = [loc EXCEPT !.y =
                         [c \in 1..5 |-> IF c \in cs THEN loc.y[c] + Sign(dydt[c])
                                         ELSE loc.y[c]]]
    /\ UNCHANGED <<params, pre, pc, args, result, ssMemo, eigMemo>>

SpecFlow == InitFlow /\ [][FlowStep]_vars

-----------------------------------------------------------------------------
(* The equilibrium solver and the sweeps' inputs *)

\* Values a sweep assigns to its parameter (an intake rate in units of 1/YU,
\* a model parameter in units of 1/PU)
SweepValues == {1, 2, 3}

\* Names a sweep is called with: the intake rate, a key of the parameter
\* mapping, and a name that is neither
SweepNames == {"I", "k_des", "bogus"}

\* Parameter ranges: every sequence of sweep values of length 0..MaxLen
Ranges == UNION {[1..n -> SweepValues] : n \in 0..MaxLen}

\* Outcomes of steady_state: simulate raises RuntimeError, or fsolve returns
SSOutcomes ==
    {[ok |-> FALSE, y |-> NaNVec]} \cup {[ok |-> TRUE, y |-> y] : y \in SolverStates}

\* steady_state(I_const, include_upregulation) reads the parameter mapping
SSKey(p, I_const, include_upregulation) == <<p, I_const, include_upregulation>>

\* A solver whose outcome for a key is not tied to the one it gave before
\* (as when it is started from wherever the previous solve ended)
steady_statePathDependent(key) == SSOutcomes

\* The outcomes the solver may give for a key: the one it gave before, if any
steady_state(key) ==
    IF key \in DOMAIN ssMemo THEN {ssMemo[key]} ELSE SSOutcomes

Remember(memo, key, o) ==
    IF key \in DOMAIN memo THEN memo
    ELSE [k \in DOMAIN memo \cup {key} |-> IF k = key THEN o ELSE memo[k]]

\* eig, as a function of its matrix
eigOf(J) == IF J \in DOMAIN eigMemo THEN {eigMemo[J]} ELSE eig(J)

\* model.params[name] = v (adds the key when it is not one)
SetItem(p, name, v) ==
    [n \in DOMAIN p \cup {name} |-> IF n = name THEN v ELSE p[n]]

InitSweep ==
    /\ params = DefaultParameters
    /\ pre = params
    /\ pc = "idle"
    /\ args = NoArgs
    /\ loc = NoLoc
    /\ result = NoResult
    /\ ssMemo = <<>>
    /\ eigMemo = <<>>

-----------------------------------------------------------------------------
(* bifurcation.py: continuation_1d *)

\* lines 64-75: allocate the outputs, remember the parameter's value
ContinuationFrame(param_name, param_range, include_upregulation, track_stability) ==
    [NoLoc EXCEPT
        !.param_name = param_name,
        !.param_range = param_range,
        !.include_upregulation = include_upregulation,
        !.track_stability = track_stability,
        !.i = 1,
        !.steady_states = [k \in 1..Len(param_range) |-> ZeroVec],
        !.is_stable = [k \in 1..Len(param_range) |-> FALSE],
        !.max_eigs = [k \in 1..Len(param_range) |-> 0],
        !.varying_input = (param_name = "I"),
        !.original_param =
            IF param_name = "I" THEN <<>>
            ELSE IF param_name \in DOMAIN params THEN <<params[param_name]>>
            ELSE <<>>]

CallContinuation1d ==
    /\ pc = "idle"
    /\ \E param_name \in SweepNames, param_range \in Ranges,
          include_upregulation \in BOOLEAN, track_stability \in BOOLEAN :
        /\ args' = [NoArgs EXCEPT !.op = "continuation_1d",
                                  !.param_name = param_name,
                                  !.param_range = param_range,
                                  !.include_upregulation = include_upregulation,
                                  !.track_stability = track_stability]
        /\ loc' = ContinuationFrame(param_name, param_range,
                                     include_upregulation, track_stability)
    /\ pc' = "cont_loop"
    /\ UNCHANGED <<params, pre, result, ssMemo, eigMemo>>

\* A step that writes the value into the mapping for the intake name too
ContSetWritesIntake ==
    /\ pc = "cont_loop"
    /\ loc.i =< Len(loc.param_range)
    /\ LET p_val == loc.param_range[loc.i]
       IN  /\ params' = SetItem(params, loc.param_name, p_val)
           /\ loc' = [loc EXCEPT !.I_const = IF loc.varying_input THEN p_val ELSE 0]
    /\ pc' = "cont_solve"
    /\ UNCHANGED <<pre, args, result, ssMemo, eigMemo>>

\* lines 77-85: the next value; the model parameter is set to it
ContSet ==
    /\ pc = "cont_loop"
    /\ loc.i =< Len(loc.param_range)
    /\ LET p_val == loc.param_range[loc.i]
       IN  IF loc.varying_input
           THEN /\ loc' = [loc EXCEPT !.I_const = p_val]
                /\ UNCHANGED params
           ELSE /\ params' = SetItem(params, loc.param_name, p_val)
                /\ loc' = [loc EXCEPT !.I_const = 0]
    /\ pc' = "cont_solve"
    /\ UNCHANGED <<pre, args, result, ssMemo, eigMemo>>

\* An except branch that leaves the stored state as it is
ContFailedKeepsState(l) ==
    [l EXCEPT !.is_stable[l.i] = FALSE,
              !.max_eigs[l.i] = NaN,
              !.i = l.i + 1]

\* An except branch that leaves the leading eigenvalue as allocated
ContFailedKeepsMaxEig(l) ==
    [l EXCEPT !.steady_states[l.i] = NaNVec,
              !.is_stable[l.i] = FALSE,
              !.i = l.i + 1]

\* lines 99-103: except Exception
ContFailed(l) ==
    [l EXCEPT !.steady_states[l.i] = NaNVec,
              !.is_stable[l.i] = FALSE,
              !.max_eigs[l.i] = NaN,
              !.i = l.i + 1]

\* lines 87-103: the equilibrium and its stability at the value
ContSolve ==
    /\ pc = "cont_solve"
    /\ LET key == SSKey(params, loc.I_const, loc.include_upregulation)
       IN  \E o \in steady_state(key) :
            /\ ssMemo' = Remember(ssMemo, key, o)
            /\ IF ~o.ok
               THEN /\ loc' = ContFailed(loc)
                    /\ UNCHANGED eigMemo
               ELSE LET stored == [loc EXCEPT !.steady_states[loc.i] = o.y]
                    IN  IF ~loc.track_stability
                        THEN /\ loc' = [stored EXCEPT !.i = loc.i + 1]
                             /\ UNCHANGED eigMemo
                        ELSE LET J == jacobian(params, o.y, loc.I_const)
                             IN  \E e \in eigOf(J) :
                                  /\ eigMemo' = Remember(eigMemo, J, e)
                                  /\ IF ~e.ok
                                     THEN loc' = ContFailed(stored)
                                     ELSE LET eigen_results == eigenanalysis(e.eigenvalues)
                                          IN  loc' =
                                                [stored EXCEPT
                                                  !.is_stable[loc.i] = eigen_results.is_stable,
                                                  !.max_eigs[loc.i] = SeqMax(eigen_results.real_parts),
                                                  !.i = loc.i + 1]
    /\ pc' = "cont_loop"
    /\ UNCHANGED <<params, pre, args, result>>

\* A continuation that does not write the original value back
ContRestoreSkipped(p, l) == p

\* lines 105-107: restore the original parameter
ContRestore(p, l) ==
    IF ~l.varying_input /\ l.original_param # <<>>
    THEN SetItem(p, l.param_name, l.original_param[1])
    ELSE p

\* A result that leaves the invalid entries out
ContResultDropsInvalid(l) ==
    LET valid == {k \in 1..Len(l.steady_states) : l.steady_states[k] # NaNVec}
        nth(j) == CHOOSE k \in valid : Cardinality({m \in valid : m < k}) = j - 1
        keep(a) == [j \in 1..Cardinality(valid) |-> a[nth(j)]]
    IN  IF l.track_stability
        THEN [param_values |-> keep(l.param_range),
              steady_states |-> keep(l.steady_states),
              stability |-> keep(l.is_stable),
              max_eigenvalue |-> keep(l.max_eigs)]
        ELSE [param_values |-> keep(l.param_range),
              steady_states |-> keep(l.steady_states)]

\* lines 109-118: the result
ContResult(l) ==
    IF l.track_stability
    THEN [param_values |-> l.param_range,
          steady_states |-> l.steady_states,
          stability |-> l.is_stable,
          max_eigenvalue |-> l.max_eigs]
    ELSE [param_values |-> l.param_range,
          steady_states |-> l.steady_states]

ContEnd ==
    /\ pc = "cont_loop"
    /\ args.op = "continuation_1d"
    /\ loc.i > Len(loc.param_range)
    /\ params' = ContRestore(params, loc)
    /\ result' = Return(ContResult(loc))
    /\ pc' = "done"
    /\ UNCHANGED <<pre, args, loc, ssMemo, eigMemo>>

-----------------------------------------------------------------------------
(* stability.py: parameter_sensitivity *)

\* lines 224-227: original_value = self.model.params[param_name]
CallParameterSensitivity ==
    /\ pc = "idle"
    /\ \E param_name \in SweepNames, param_range \in Ranges,
          I_const \in Intakes, include_upregulation \in BOOLEAN :
        /\ args' = [NoArgs EXCEPT !.op = "parameter_sensitivity",
                                  !.param_name = param_name,
                                  !.param_range = param_range,
                                  !.I_const = I_const,
                                  !.include_upregulation = include_upregulation]
        /\ IF param_name \in DOMAIN params
           THEN /\ loc' = [NoLoc EXCEPT !.i = 1,
                                        !.I_const = I_const,
                                        !.original_param = <<params[param_name]>>]
                /\ pc' = "sens_loop"
                /\ UNCHANGED result
           ELSE /\ result' = Raise("KeyError")
                /\ pc' = "done"
                /\ UNCHANGED loc
    /\ UNCHANGED <<params, pre, ssMemo, eigMemo>>

\* lines 229-231: the next value is written to the parameter
SensSet ==
    /\ pc = "sens_loop"
    /\ loc.i =< Len(args.param_range)
    /\ params' = SetItem(params, args.param_name, args.param_range[loc.i])
    /\ pc' = "sens_solve"
    /\ UNCHANGED <<pre, args, loc, result, ssMemo, eigMemo>>

\* lines 240-242: except
SensFailed(l) ==
    [l EXCEPT !.max_eigs = Append(l.max_eigs, NaN),
              !.is_stable = Append(l.is_stable, FALSE),
              !.i = l.i + 1]

\* lines 233-242: the equilibrium and its stability at the value
SensSolve ==
    /\ pc = "sens_solve"
    /\ LET key == SSKey(params, loc.I_const, args.include_upregulation)
       IN  \E o \in steady_state(key) :
            /\ ssMemo' = Remember(ssMemo, key, o)
            /\ IF ~o.ok
               THEN /\ loc' = SensFailed(loc)
                    /\ UNCHANGED eigMemo
               ELSE LET J == jacobian(params, o.y, loc.I_const)
                    IN  \E e \in eigOf(J) :
                         /\ eigMemo' = Remember(eigMemo, J, e)
                         /\ IF ~e.ok
                            THEN loc' = SensFailed(loc)
                            ELSE LET eigen_results == eigenanalysis(e.eigenvalues)
                                 IN  loc' =
                                       [loc EXCEPT
                                         !.max_eigs = Append(loc.max_eigs,
                                                             SeqMax(eigen_results.real_parts)),
                                         !.is_stable = Append(loc.is_stable,
                                                              eigen_results.is_stable),
                                         !.i = loc.i + 1]
    /\ pc' = "sens_loop"
    /\ UNCHANGED <<params, pre, args, result>>

\* A sweep that does not write the original value back
SensRestoreSkipped(p, l, param_name) == p

\* lines 244-245: restore the original parameter
SensRestore(p, l, param_name) == SetItem(p, param_name, l.original_param[1])

\* lines 244-251
SensEnd ==
    /\ pc = "sens_loop"
    /\ loc.i > Len(args.param_range)
    /\ params' = SensRestore(params, loc, args.param_name)
    /\ result' = Return([param_values |-> args.param_range,
                         max_real_eigenvalue |-> loc.max_eigs,
                         is_stable |-> loc.is_stable])
    /\ pc' = "done"
    /\ UNCHANGED <<pre, args, loc, ssMemo, eigMemo>>

-----------------------------------------------------------------------------
(* bifurcation.py: critical_transition_threshold *)

\* line 254
var_indices == [N |-> 1, R_a |-> 2, R_d |-> 3, R_T |-> 4, D |-> 5]

\* Names of the variable to threshold: two state variables and an unknown one
ThresholdVars == {"D", "R_T", "bogus"}
\* Threshold values, in units of 1/YU
ThresholdValues == {4, 5, 6}
\* Search ranges (min, max)
SearchRanges == {<<lo, hi>> : lo \in SweepValues, hi \in SweepValues} \ 
                {<<v, w>> \in SweepValues \X SweepValues : v >= w}

\* lines 259-263 of threshold_func: the parameter mapping after the call
ThresholdParams(p, param_name, p_val) ==
    IF param_name = "I" THEN p ELSE SetItem(p, param_name, p_val)

ThresholdIConst(param_name, p_val) == IF param_name = "I" THEN p_val ELSE 0

\* A threshold_func whose except branch returns 0.0 instead of NaN
ThresholdReturnZeroOnFailure(o, threshold_var, threshold_value) ==
    IF o.ok THEN FSub(o.y[var_indices[threshold_var]], threshold_value) ELSE 0

\* lines 265-269 of threshold_func: its value, given the solver's outcome
ThresholdReturn(o, threshold_var, threshold_value) ==
    IF o.ok THEN FSub(o.y[var_indices[threshold_var]], threshold_value) ELSE NaN

\* threshold_func(p_val) with solver outcome o: what it does to the state
ThresholdFunc(p_val, o) ==
    LET p2 == ThresholdParams(params, args.param_name, p_val)
        key == SSKey(p2, ThresholdIConst(args.param_name, p_val), TRUE)
    IN  /\ o \in steady_state(key)
        /\ params' = p2
        /\ ssMemo' = Remember(ssMemo, key, o)

\* lines 254-255: var_idx = var_indices[threshold_var]
CallCriticalTransitionThreshold ==
    /\ pc = "idle"
    /\ \E param_name \in SweepNames, param_range \in SearchRanges,
          threshold_var \in ThresholdVars, threshold_value \in ThresholdValues :
        /\ args' = [NoArgs EXCEPT !.op = "critical_transition_threshold",
                                  !.param_name = param_name,
                                  !.param_range = param_range,
                                  !.threshold_var = threshold_var,
                                  !.threshold_value = threshold_value]
        /\ IF threshold_var \in DOMAIN var_indices
           THEN /\ pc' = "crit_min"
                /\ UNCHANGED result
           ELSE /\ result' = Raise("KeyError")
                /\ pc' = "done"
    /\ loc' = NoLoc
    /\ UNCHANGED <<params, pre, ssMemo, eigMemo>>

\* line 272: val_min = threshold_func(param_range[0])
CritEvalMin ==
    /\ pc = "crit_min"
    /\ \E o \in SSOutcomes :
        /\ ThresholdFunc(args.param_range[1], o)
        /\ loc' = [loc EXCEPT !.val_min =
                       ThresholdReturn(o, args.threshold_var, args.threshold_value)]
    /\ pc' = "crit_max"
    /\ UNCHANGED <<pre, args, result, eigMemo>>

\* line 273: val_max = threshold_func(param_range[1])
CritEvalMax ==
    /\ pc = "crit_max"
    /\ \E o \in SSOutcomes :
        /\ ThresholdFunc(args.param_range[2], o)
        /\ loc' = [loc EXCEPT !.val_max =
                       ThresholdReturn(o, args.threshold_var, args.threshold_value)]
    /\ pc' = "crit_check"
    /\ UNCHANGED <<pre, args, result, eigMemo>>

\* A bracket test that also gives up when an endpoint value is zero
NotBracketedNonStrict(val_min, val_max) ==
    \/ IsNaN(val_min) \/ IsNaN(val_max)
    \/ FGe(FMul(val_min, val_max), 0)

\* lines 275-280: is the threshold crossed in the range
NotBracketed(val_min, val_max) ==
    \/ IsNaN(val_min) \/ IsNaN(val_max)
    \/ FGt(FMul(val_min, val_max), 0)

CritCheck ==
    /\ pc = "crit_check"
    /\ IF NotBracketed(loc.val_min, loc.val_max)
       THEN /\ result' = Return(<<>>)
            /\ pc' = "done"
       ELSE /\ pc' = "brentq_a"
            /\ UNCHANGED result
    /\ UNCHANGED <<params, pre, args, loc, ssMemo, eigMemo>>

\* line 284, brentq(threshold_func, a, b): f at the first endpoint
BrentqA ==
    /\ pc = "brentq_a"
    /\ \E o \in SSOutcomes :
        /\ ThresholdFunc(args.param_range[1], o)
        /\ loc' = [loc EXCEPT
                     !.fa = ThresholdReturn(o, args.threshold_var, args.threshold_value),
                     !.evaluated = {args.param_range[1]}]
    /\ pc' = "brentq_b"
    /\ UNCHANGED <<pre, args, result, eigMemo>>

\* brentq: f at the second endpoint; an endpoint that is a root is returned,
\* endpoints of one sign raise ValueError, which line 286 turns into None
BrentqB ==
    /\ pc = "brentq_b"
    /\ \E o \in SSOutcomes :
        /\ ThresholdFunc(args.param_range[2], o)
        /\ LET fb == ThresholdReturn(o, args.threshold_var, args.threshold_value)
           IN  /\ loc' = [loc EXCEPT !.fb = fb,
                                     !.evaluated = loc.evaluated \cup {args.param_range[2]}]
               /\ IF loc.fa = 0
                  THEN result' = Return(<<args.param_range[1]>>) /\ pc' = "done"
                  ELSE IF fb = 0
                  THEN result' = Return(<<args.param_range[2]>>) /\ pc' = "done"
                  ELSE IF FGt(FMul(loc.fa, fb), 0)
                  THEN result' = Return(<<>>) /\ pc' = "done"
                  ELSE pc' = "brentq_iter" /\ UNCHANGED result
    /\ UNCHANGED <<pre, args, eigMemo>>

\* brentq: one more iterate inside the bracket
BrentqIter ==
    /\ pc = "brentq_iter"
    /\ loc.iter < MaxBrentIter
    /\ \E x \in SweepValues, o \in SSOutcomes :
        /\ args.param_range[1] =< x /\ x =< args.param_range[2]
        /\ ThresholdFunc(x, o)
        /\ loc' = [loc EXCEPT !.iter = loc.iter + 1,
                              !.evaluated = loc.evaluated \cup {x}]
    /\ UNCHANGED <<pre, pc, args, result, eigMemo>>

\* brentq returns one of the points it evaluated f at, or raises for want
\* of convergence, which line 286 turns into None
BrentqReturn ==
    /\ pc = "brentq_iter"
    /\ \/ \E x \in loc.evaluated : result' = Return(<<x>>)
       \/ result' = Return(<<>>)
    /\ pc' = "done"
    /\ UNCHANGED <<params, pre, args, loc, ssMemo, eigMemo>>

-----------------------------------------------------------------------------
(* bifurcation.py: hysteresis_loop *)

IsAscending(r) == \A k \in 1..Len(r) - 1 : r[k] < r[k + 1]
IsDescending(r) == \A k \in 1..Len(r) - 1 : r[k] > r[k + 1]

\* steady_states[:, 4]
DColumn(steady_states) == [k \in DOMAIN steady_states |-> steady_states[k][iD]]

\* (param_range >= p_min) & (param_range <= p_max)
OverlapIndices(param_range, p_min, p_max) ==
    [k \in DOMAIN param_range |-> param_range[k] >= p_min /\ param_range[k] =< p_max]

\* np.any(mask)
NpAny(mask) == \E k \in DOMAIN mask : mask[k]

\* a[mask]: the entries of a where mask holds, in order
Masked(a, mask) ==
    LET idx == {k \in DOMAIN mask : mask[k]}
        nth(j) == CHOOSE k \in idx : Cardinality({m \in idx : m < k}) = j - 1
    IN  [j \in 1..Cardinality(idx) |-> a[nth(j)]]

\* Whether numpy broadcasts two one-dimensional arrays against each other
Broadcasts(a, b) == Len(a) = Len(b) \/ Len(a) = 1 \/ Len(b) = 1

\* a - b of two one-dimensional arrays that broadcast
ArraySub(a, b) ==
    LET n == IF Len(a) >= Len(b) THEN Len(a) ELSE Len(b)
    IN  [k \in 1..n |-> FSub(IF Len(a) = 1 THEN a[1] ELSE a[k],
                             IF Len(b) = 1 THEN b[1] ELSE b[k])]

\* np.nanmax(np.abs(a)): NaN when every entry is NaN
NanMaxAbs(a) ==
    LET finite == {FAbs(a[k]) : k \in {j \in DOMAIN a : ~IsNaN(a[j])}}
    IN  IF finite = {} THEN NaN
        ELSE CHOOSE m \in finite : \A v \in finite : v =< m

\* The hull of the two ranges taken for their overlap
OverlapRegionHull(param_range_up, param_range_down) ==
    <<PyMin(param_range_up[1], param_range_down[Len(param_range_down)]),
      PyMax(param_range_up[Len(param_range_up)], param_range_down[1])>>

\* lines 210-212: the overlap region <<p_min, p_max>> of the two ranges
OverlapRegion(param_range_up, param_range_down) ==
    <<PyMax(param_range_up[1], param_range_down[Len(param_range_down)]),
      PyMin(param_range_up[Len(param_range_up)], param_range_down[1])>>

\* lines 205-233, after both sweeps: the result, or the exception raised
HysteresisResult(up_sweep, down_sweep, param_range_up, param_range_down) ==
    IF Len(param_range_up) = 0 \/ Len(param_range_down) = 0
    THEN Raise("IndexError")
    ELSE
    LET D_up == DColumn(up_sweep.steady_states)
        D_down == DColumn(down_sweep.steady_states)
        p_min == OverlapRegion(param_range_up, param_range_down)[1]
        p_max == OverlapRegion(param_range_up, param_range_down)[2]
        overlap_indices_up == OverlapIndices(param_range_up, p_min, p_max)
        overlap_indices_down == OverlapIndices(param_range_down, p_min, p_max)
        width(w) == Return([up_sweep |-> up_sweep, down_sweep |-> down_sweep,
                            hysteresis_width |-> w])
    IN  IF p_max > p_min
        THEN IF NpAny(overlap_indices_up) /\ NpAny(overlap_indices_down)
             THEN IF Broadcasts(Masked(D_up, overlap_indices_up),
                                Masked(D_down, overlap_indices_down))
                  THEN width(NanMaxAbs(ArraySub(Masked(D_up, overlap_indices_up),
                                                Masked(D_down, overlap_indices_down))))
                  ELSE Raise("ValueError")
             ELSE width(0)
        ELSE width(0)

\* Monotone ranges of sweep values
UpRanges == {r \in Ranges : IsAscending(r)}
DownRanges == {r \in Ranges : IsDescending(r)}

\* lines 189-195: the upward sweep is entered
CallHysteresisLoop ==
    /\ pc = "idle"
    /\ \E param_range_up \in UpRanges, param_range_down \in DownRanges,
          param_name \in SweepNames :
        /\ args' = [NoArgs EXCEPT !.op = "hysteresis_loop",
                                  !.param_name = param_name,
                                  !.param_range = param_range_up,
                                  !.range_down = param_range_down]
        /\ loc' = [ContinuationFrame(param_name, param_range_up, TRUE, TRUE)
                     EXCEPT !.phase = "up"]
    /\ pc' = "cont_loop"
    /\ UNCHANGED <<params, pre, result, ssMemo, eigMemo>>

\* lines 105-118 of the upward sweep, lines 197-203: the downward sweep is entered
HystUpEnd ==
    /\ pc = "cont_loop"
    /\ args.op = "hysteresis_loop"
    /\ loc.phase = "up"
    /\ loc.i > Len(loc.param_range)
    /\ params' = ContRestore(params, loc)
    /\ loc' = [ContinuationFrame(args.param_name, args.range_down, TRUE, TRUE)
                 EXCEPT !.phase = "down",
                        !.up_sweep = ContResult(loc),
                        !.original_param =
                            IF args.param_name \in DOMAIN params' /\ args.param_name # "I"
                            THEN <<params'[args.param_name]>> ELSE <<>>]
    /\ UNCHANGED <<pre, pc, args, result, ssMemo, eigMemo>>

\* lines 105-118 of the downward sweep, lines 205-233
HystDownEnd ==
    /\ pc = "cont_loop"
    /\ args.op = "hysteresis_loop"
    /\ loc.phase = "down"
    /\ loc.i > Len(loc.param_range)
    /\ params' = ContRestore(params, loc)
    /\ result' = HysteresisResult(loc.up_sweep, ContResult(loc),
                                  args.param_range, args.range_down)
    /\ pc' = "done"
    /\ UNCHANGED <<pre, args, loc, ssMemo, eigMemo>>

-----------------------------------------------------------------------------
(* bifurcation.py: intake_regime_classifier *)

\* num / den < tn / td as numpy evaluates it (td > 0): a division by zero
\* gives inf, -inf or nan, and a comparison with nan is False.  The quotient
\* is compared exactly; no state the solver returns here lies on a threshold.
QuotientLt(num, den, tn, td) ==
    IF IsNaN(num) THEN FALSE
    ELSE IF den > 0 THEN num * td < tn * den
    ELSE IF den < 0 THEN num * td > tn * den
    ELSE num < 0

\* A classification with the two conditions of "Casual" joined by "or"
RegimeEitherBelow(D, R_T, D_0, R_T_0) ==
    LET D_num == IF IsNaN(D) THEN NaN ELSE D * PU - D_0 * YU
        R_T_num == IF IsNaN(R_T) THEN NaN ELSE R_T * PU - R_T_0 * YU
    IN  IF QuotientLt(D_num, D_0 * YU, 1, 5) \/ QuotientLt(R_T_num, R_T_0 * YU, 1, 20)
        THEN "Casual"
        ELSE IF QuotientLt(D_num, D_0 * YU, 1, 2) /\ QuotientLt(R_T_num, R_T_0 * YU, 3, 20)
        THEN "Regular"
        ELSE "Dependent"

\* lines 322-330: the regime of the levels D and R_T (units 1/YU) for the
\* baselines D_0 and R_T_0 (units 1/PU)
Regime(D, R_T, D_0, R_T_0) ==
    LET D_num == IF IsNaN(D) THEN NaN ELSE D * PU - D_0 * YU
        R_T_num == IF IsNaN(R_T) THEN NaN ELSE R_T * PU - R_T_0 * YU
    IN  IF QuotientLt(D_num, D_0 * YU, 1, 5) /\ QuotientLt(R_T_num, R_T_0 * YU, 1, 20)
        THEN "Casual"
        ELSE IF QuotientLt(D_num, D_0 * YU, 1, 2) /\ QuotientLt(R_T_num, R_T_0 * YU, 3, 20)
        THEN "Regular"
        ELSE "Dependent"

\* lines 308-313
CallIntakeRegimeClassifier ==
    /\ pc = "idle"
    /\ \E I_values \in Ranges :
        /\ args' = [NoArgs EXCEPT !.op = "intake_regime_classifier",
                                  !.I_values = I_values]
        /\ loc' = [NoLoc EXCEPT !.i = 1,
                                !.D_steady = [k \in 1..Len(I_values) |-> 0],
                                !.R_T_steady = [k \in 1..Len(I_values) |-> 0],
                                !.regimes = <<>>,
                                !.R_T_0 = params.R_T_0]
    /\ pc' = "class_loop"
    /\ UNCHANGED <<params, pre, result, ssMemo, eigMemo>>

\* A failure that records no label
ClassFailedDropsLabel(l) ==
    [l EXCEPT !.D_steady[l.i] = NaN,
              !.R_T_steady[l.i] = NaN,
              !.i = l.i + 1]

\* lines 334-337: except
ClassFailed(l) ==
    [l EXCEPT !.D_steady[l.i] = NaN,
              !.R_T_steady[l.i] = NaN,
              !.regimes = Append(l.regimes, "Undefined"),
              !.i = l.i + 1]

\* lines 318-332: the levels and the regime of an equilibrium
Classified(l, y_ss, p) ==
    [l EXCEPT !.D_steady[l.i] = y_ss[iD],
              !.R_T_steady[l.i] = y_ss[iRT],
              !.regimes = Append(l.regimes,
                                 Regime(y_ss[iD], y_ss[iRT], p.D_0, l.R_T_0)),
              !.i = l.i + 1]

\* lines 315-337: one intake value
ClassSolve ==
    /\ pc = "class_loop"
    /\ loc.i =< Len(args.I_values)
    /\ LET key == SSKey(params, args.I_values[loc.i], TRUE)
       IN  \E o \in steady_state(key) :
            /\ ssMemo' = Remember(ssMemo, key, o)
            /\ loc' = IF o.ok THEN Classified(loc, o.y, params) ELSE ClassFailed(loc)
    /\ UNCHANGED <<params, pre, pc, args, result, eigMemo>>

\* lines 339-344
ClassEnd ==
    /\ pc = "class_loop"
    /\ loc.i > Len(args.I_values)
    /\ result' = Return(
          [intake_rates |-> args.I_values,
           dopamine_levels |-> loc.D_steady,
           receptor_upregulation |->
               [k \in 1..Len(loc.R_T_steady) |->
                   IF IsNaN(loc.R_T_steady[k]) THEN NaN
                   ELSE loc.R_T_steady[k] * PU - loc.R_T_0 * YU],
           regime |-> loc.regimes])
    /\ pc' = "done"
    /\ UNCHANGED <<params, pre, args, loc, ssMemo, eigMemo>>

Next ==
    \/ CallContinuation1d
    \/ ContSet
    \/ ContSolve
    \/ ContEnd
    \/ CallParameterSensitivity
    \/ SensSet
    \/ SensSolve
    \/ SensEnd
    \/ CallCriticalTransitionThreshold
    \/ CritEvalMin
    \/ CritEvalMax
    \/ CritCheck
    \/ BrentqA
    \/ BrentqB
    \/ BrentqIter
    \/ BrentqReturn
    \/ CallHysteresisLoop
    \/ HystUpEnd
    \/ HystDownEnd
    \/ CallIntakeRegimeClassifier
    \/ ClassSolve
    \/ ClassEnd

Spec == InitSweep /\ [][Next]_vars

-----------------------------------------------------------------------------
(* Two sweeps on one model instance, their per-value steps interleaved.
   Each caller has its own frame; the parameter mapping is the one object
   both write.  A frame also records the mapping each of its equilibria
   was computed under (under) and whether the call began while the other
   caller was inside a sweep (overlapped). *)

MaxParLen == 1

Threads == {1, 2}
Other(t) == 3 - t

\* The parameter both sweeps vary
ParName == "k_des"

\* The values the two sweeps step through
ParValues == {1, 2}

ParRanges == UNION {[1..n -> ParValues] : n \in 0..MaxParLen}

Busy(t) == pc[t] \notin {"idle", "done"}

InitPar ==
    /\ params = DefaultParameters
    /\ pre = params
    /\ pc = [t \in Threads |-> "idle"]
    /\ args = [t \in Threads |-> NoArgs]
    /\ loc = [t \in Threads |-> NoLoc]
    /\ result = [t \in Threads |-> NoResult]
    /\ ssMemo = <<>>
    /\ eigMemo = <<>>

\* continuation_1d, lines 64-75, in caller t
ParCallContinuation1d(t) ==
    /\ pc[t] = "idle"
    /\ \E param_range \in ParRanges, track_stability \in BOOLEAN :
        /\ args' = [args EXCEPT ![t] =
                      [NoArgs EXCEPT !.op = "continuation_1d",
                                     !.param_name = ParName,
                                     !.param_range = param_range,
                                     !.include_upregulation = TRUE,
                                     !.track_stability = track_stability]]
        /\ loc' = [loc EXCEPT ![t] =
                     [ContinuationFrame(ParName, param_range, TRUE, track_stability)
                        EXCEPT !.overlapped = Busy(Other(t))]]
    /\ pc' = [pc EXCEPT ![t] = "cont_loop"]
    /\ UNCHANGED <<params, pre, result, ssMemo, eigMemo>>

\* parameter_sensitivity, lines 224-227, in caller t
ParCallParameterSensitivity(t) ==
    /\ pc[t] = "idle"
    /\ \E param_range \in ParRanges :
        /\ args' = [args EXCEPT ![t] =
                      [NoArgs EXCEPT !.op = "parameter_sensitivity",
                                     !.param_name = ParName,
                                     !.param_range = param_range,
                                     !.include_upregulation = TRUE]]
        /\ loc' = [loc EXCEPT ![t] =
                     [NoLoc EXCEPT !.i = 1,
                                   !.param_name = ParName,
                                   !.param_range = param_range,
                                   !.include_upregulation = TRUE,
                                   !.track_stability = TRUE,
                                   !.original_param = <<params[ParName]>>,
                                   !.overlapped = Busy(Other(t))]]
    /\ pc' = [pc EXCEPT ![t] = "sens_loop"]
    /\ UNCHANGED <<params, pre, result, ssMemo, eigMemo>>

\* self.model.params[param_name] = p_val (bifurcation.py line 84,
\* stability.py line 231), in caller t
ParSet(t) ==
    /\ pc[t] \in {"cont_loop", "sens_loop"}
    /\ loc[t].i =< Len(loc[t].param_range)
    /\ params' = SetItem(params, loc[t].param_name, loc[t].param_range[loc[t].i])
    /\ pc' = [pc EXCEPT ![t] = IF pc[t] = "cont_loop" THEN "cont_solve"
                                ELSE "sens_solve"]
    /\ UNCHANGED <<pre, args, loc, result, ssMemo, eigMemo>>

\* The frame after the equilibrium and its stability were computed with the
\* outcomes o of steady_state and e of eig
ParSolved(l, op, o, e) ==
    LET seen == [l EXCEPT !.under = Append(l.under, params)]
    IN  IF op = "continuation_1d"
        THEN IF ~o.ok THEN ContFailed(seen)
             ELSE LET stored == [seen EXCEPT !.steady_states[l.i] = o.y]
                  IN  IF ~l.track_stability THEN [stored EXCEPT !.i = l.i + 1]
                      ELSE IF ~e.ok THEN ContFailed(stored)
                      ELSE LET eigen_results == eigenanalysis(e.eigenvalues)
                           IN  [stored EXCEPT
                                  !.is_stable[l.i] = eigen_results.is_stable,
                                  !.max_eigs[l.i] = SeqMax(eigen_results.real_parts),
                                  !.i = l.i + 1]
        ELSE IF ~o.ok \/ ~e.ok THEN SensFailed(seen)
             ELSE LET eigen_results == eigenanalysis(e.eigenvalues)
                  IN  [seen EXCEPT
                         !.max_eigs = Append(l.max_eigs,
                                             SeqMax(eigen_results.real_parts)),
                         !.is_stable = Append(l.is_stable, eigen_results.is_stable),
                         !.i = l.i + 1]

\* The solver outcomes the interleaved sweeps are followed through: a
\* failure and an equilibrium
ParOutcomes == {[ok |-> FALSE, y |-> NaNVec], [ok |-> TRUE, y |-> yA]}

\* steady_state and eigenanalysis at the mapping as it is when caller t
\* reaches them (bifurcation.py lines 87-103, stability.py lines 233-242)
ParSolve(t) ==
    /\ pc[t] \in {"cont_solve", "sens_solve"}
    /\ LET key == SSKey(params, 0, TRUE)
       IN  \E o \in steady_state(key) \cap ParOutcomes :
            /\ ssMemo' = Remember(ssMemo, key, o)
            /\ IF o.ok /\ loc[t].track_stability
               THEN LET J == jacobian(params, o.y, 0)
                    IN  \E e \in eigOf(J) :
                         /\ eigMemo' = Remember(eigMemo, J, e)
                         /\ loc' = [loc EXCEPT ![t] =
                                      ParSolved(loc[t], args[t].op, o, e)]
               ELSE /\ loc' = [loc EXCEPT ![t] =
                                 ParSolved(loc[t], args[t].op, o, EigRaise)]
                    /\ UNCHANGED eigMemo
    /\ pc' = [pc EXCEPT ![t] = IF pc[t] = "cont_solve" THEN "cont_loop"
                                ELSE "sens_loop"]
    /\ UNCHANGED <<params, pre, args, result>>

\* continuation_1d, lines 105-118, in caller t
ParContEnd(t) ==
    /\ pc[t] = "cont_loop"
    /\ loc[t].i > Len(loc[t].param_range)
    /\ params' = ContRestore(params, loc[t])
    /\ result' = [result EXCEPT ![t] = Return(ContResult(loc[t]))]
    /\ pc' = [pc EXCEPT ![t] = "done"]
    /\ UNCHANGED <<pre, args, loc, ssMemo, eigMemo>>

\* parameter_sensitivity, lines 244-251, in caller t
ParSensEnd(t) ==
    /\ pc[t] = "sens_loop"
    /\ loc[t].i > Len(loc[t].param_range)
    /\ params' = SensRestore(params, loc[t], loc[t].param_name)
    /\ result' = [result EXCEPT ![t] =
                    Return([param_values |-> loc[t].param_range,
                            max_real_eigenvalue |-> loc[t].max_eigs,
                            is_stable |-> loc[t].is_stable])]
    /\ pc' = [pc EXCEPT ![t] = "done"]
    /\ UNCHANGED <<pre, args, loc, ssMemo, eigMemo>>

NextPar ==
    \/ \E t \in Threads : ParCallContinuation1d(t)
    \/ \E t \in Threads : ParCallParameterSensitivity(t)
    \/ \E t \in Threads : ParSet(t)
    \/ \E t \in Threads : ParSolve(t)
    \/ \E t \in Threads : ParContEnd(t)
    \/ \E t \in Threads : ParSensEnd(t)

SpecPar == InitPar /\ [][NextPar]_vars

-----------------------------------------------------------------------------
(* bifurcation.py: detect_bifurcations, applied to continuation results.
   Indices are reported as the code counts them, from 0: entry i of an
   array is element i + 1 of the sequence that models it. *)

MaxCurve == 4

\* The ascending list the loop appends the members of S in
AscendingList(S) ==
    CHOOSE q \in [1..Cardinality(S) -> S] :
        \A a, b \in 1..Cardinality(S) : a < b => q[a] < q[b]

\* A fold test with non-strict comparisons
FoldIndicesNonStrict(D_curve) ==
    AscendingList({i \in 1..(Len(D_curve) - 2) :
        /\ D_curve[i + 1] # NaN
        /\ \/ FGe(D_curve[i + 1], D_curve[i]) /\ FGe(D_curve[i + 1], D_curve[i + 2])
           \/ FLe(D_curve[i + 1], D_curve[i]) /\ FLe(D_curve[i + 1], D_curve[i + 2])})

\* lines 146-153: for i in range(1, len(D_curve) - 1)
FoldIndices(D_curve) ==
    AscendingList({i \in 1..(Len(D_curve) - 2) :
        /\ D_curve[i + 1] # NaN
        /\ \/ FGt(D_curve[i + 1], D_curve[i]) /\ FGt(D_curve[i + 1], D_curve[i + 2])
           \/ FLt(D_curve[i + 1], D_curve[i]) /\ FLt(D_curve[i + 1], D_curve[i + 2])})

\* A scan that stops at the first change
StabilityChangesFirstOnly(stability) ==
    LET flips == {i \in 1..(Len(stability) - 1) : stability[i + 1] # stability[i]}
    IN  IF flips = {} THEN <<>>
        ELSE <<CHOOSE i \in flips : \A j \in flips : i =< j>>

\* lines 158-160: for i in range(1, len(stability))
StabilityChanges(stability) ==
    AscendingList({i \in 1..(Len(stability) - 1) : stability[i + 1] # stability[i]})

\* lines 138-165
detect_bifurcations(continuation_result) ==
    LET steady_states == continuation_result.steady_states
        D_curve == [k \in 1..Len(steady_states) |-> steady_states[k][iD]]
    IN  [saddle_node_indices |-> FoldIndices(D_curve),
         stability_change_indices |->
             IF "stability" \in DOMAIN continuation_result
             THEN StabilityChanges(continuation_result.stability)
             ELSE <<>>]

\* Dopamine levels of the rows of a continuation result; NaN is a failed row
CurveLevels == {4, 5, NaN}

\* The continuation results detect_bifurcations is applied to: what
\* continuation_1d returns (lines 99-118) for up to MaxCurve values, a failed
\* row all NaN with stability False and largest eigenvalue NaN
ContinuationResults ==
    UNION {
        {ContResult([NoLoc EXCEPT
            !.param_range = [k \in 1..n |-> k],
            !.track_stability = track_stability,
            !.steady_states = [k \in 1..n |-> IF D[k] = NaN THEN NaNVec
                                              ELSE <<0, 0, 0, 10, D[k]>>],
            !.is_stable = [k \in 1..n |-> D[k] # NaN /\ st[k]],
            !.max_eigs = [k \in 1..n |-> IF D[k] = NaN THEN NaN
                                         ELSE IF st[k] THEN -1 ELSE 1]]) :
            D \in [1..n -> CurveLevels], st \in [1..n -> BOOLEAN],
            track_stability \in BOOLEAN} : n \in 0..MaxCurve}

InitDetect ==
    /\ params = DefaultParameters
    /\ pre = params
    /\ pc = "idle"
    /\ \E r \in ContinuationResults :
        args = [NoArgs EXCEPT !.op = "detect_bifurcations",
                              !.continuation_result = r]
    /\ loc = NoLoc
    /\ result = NoResult
    /\ ssMemo = <<>>
    /\ eigMemo = <<>>

CallDetectBifurcations ==
    /\ pc = "idle"
    /\ args.op = "detect_bifurcations"
    /\ result' = Return(detect_bifurcations(args.continuation_result))
    /\ pc' = "done"
    /\ UNCHANGED <<params, pre, args, loc, ssMemo, eigMemo>>

SpecDetect == InitDetect /\ [][CallDetectBifurcations]_vars

-----------------------------------------------------------------------------
(* hysteresis_loop after its two sweeps (lines 205-233), for sweeps of up to
   MaxSweep values: the state in which the downward sweep has just finished
   its loop is built from the solver's outcome at each swept value, and
   HystDownEnd acts on it. *)

MaxSweep == 3

WidthUpRanges ==
    {r \in UNION {[1..n -> SweepValues] : n \in 0..MaxSweep} : IsAscending(r)}
WidthDownRanges ==
    {r \in UNION {[1..n -> SweepValues] : n \in 0..MaxSweep} : IsDescending(r)}

\* The solver outcomes the sweeps are built from: a failure and two equilibria
WidthOutcomes ==
    {[ok |-> FALSE, y |-> NaNVec], [ok |-> TRUE, y |-> yA], [ok |-> TRUE, y |-> yB]}

\* The outcome of eig at the equilibrium y, eB being its outcome at yB (the
\* one solver state whose Jacobian is not triangular)
EigAt(y, eB) ==
    IF y = yB THEN eB ELSE CHOOSE e \in eig(jacobian(params, y, 0)) : TRUE

\* What the step of an intake sweep at the value v stores (lines 77-103),
\* o being the outcome of steady_state at the intake v: the frame of a
\* one-value sweep after that step
SweepStep(v, o, eB) ==
    ParSolved(ContinuationFrame("I", <<v>>, TRUE, TRUE), "continuation_1d",
              o, EigAt(o.y, eB))

\* The frame of an intake sweep over param_range after its loop, T[v] being
\* what the step at the value v stores
SweepDone(param_range, T) ==
    LET n == Len(param_range)
    IN  [ContinuationFrame("I", param_range, TRUE, TRUE) EXCEPT
            !.i = n + 1,
            !.I_const = IF n = 0 THEN 0 ELSE param_range[n],
            !.steady_states = [k \in 1..n |-> T[param_range[k]].steady_states[1]],
            !.is_stable = [k \in 1..n |-> T[param_range[k]].is_stable[1]],
            !.max_eigs = [k \in 1..n |-> T[param_range[k]].max_eigs[1]]]

InitWidth ==
    /\ params = DefaultParameters
    /\ pre = params
    /\ pc = "cont_loop"
    /\ result = NoResult
    /\ \E F \in [SweepValues -> WidthOutcomes], eB \in eig(jacobian(params, yB, 0)) :
       \E T \in {[v \in SweepValues |-> SweepStep(v, F[v], eB)]} :
       \E param_range_up \in WidthUpRanges, param_range_down \in WidthDownRanges :
        LET swept == {param_range_up[k] : k \in 1..Len(param_range_up)} \cup
                     {param_range_down[k] : k \in 1..Len(param_range_down)}
            solved == {F[v].y : v \in {w \in swept : F[w].ok}}
        IN  /\ args = [NoArgs EXCEPT !.op = "hysteresis_loop",
                                    !.param_name = "I",
                                    !.param_range = param_range_up,
                                    !.range_down = param_range_down]
            /\ loc = [SweepDone(param_range_down, T) EXCEPT
                        !.phase = "down",
                        !.up_sweep = ContResult(SweepDone(param_range_up, T))]
            /\ ssMemo = [key \in {SSKey(params, v, TRUE) : v \in swept} |-> F[key[2]]]
            /\ eigMemo = [J \in {jacobian(params, y, 0) : y \in solved} |->
                            EigAt(CHOOSE y \in solved : jacobian(params, y, 0) = J, eB)]

SpecWidth == InitWidth /\ [][HystDownEnd]_vars

-----------------------------------------------------------------------------
(* Properties *)

Done(op) == pc = "done" /\ args.op = op

\* The parameter mapping, the intake and the outcomes a sweep over
\* args.param_range has at its i-th value
SweptParams(i) ==
    IF args.param_name = "I" THEN pre
    ELSE SetItem(pre, args.param_name, args.param_range[i])
SweptIntake(i) ==
    IF args.op = "parameter_sensitivity" THEN args.I_const
    ELSE IF args.param_name = "I" THEN args.param_range[i] ELSE 0
SweptKey(i) == SSKey(SweptParams(i), SweptIntake(i), args.include_upregulation)
Solved(i) == ssMemo[SweptKey(i)]
Eigen(i) == eigMemo[jacobian(SweptParams(i), Solved(i).y, SweptIntake(i))]
ValueFailed(i) == ~Solved(i).ok \/ (args.track_stability /\ ~Eigen(i).ok)
AllNegative(eigenvalues) == \A k \in 1..5 : eigenvalues[k].re < 0
Largest(eigenvalues) ==
    CHOOSE m \in {eigenvalues[k].re : k \in 1..5} :
        \A k \in 1..5 : eigenvalues[k].re =< m

\* C1: with the default parameters, dynamics at baseline_state() under zero
\* intake is zero in every component.
C1_BaselineIsEquilibrium ==
    (/\ Done("dynamics")
     /\ params = DefaultParameters
     /\ args.y = baseline_state(params)
     /\ args.I_const = 0)
    => result.value = ZeroVec

\* C2: after parameter_sensitivity returns for a key of the parameter
\* mapping, the mapping equals the mapping before the call, whatever failed.
C2_SensitivityRestoresParams ==
    (Done("parameter_sensitivity") /\ args.param_name \in DOMAIN pre)
    => (result.kind = "return" /\ params = pre)

\* C2 witness: a sweep over two values, both other than the original, of
\* which one failed, has returned.
C2_Witness ==
    /\ Done("parameter_sensitivity")
    /\ args.param_name \in DOMAIN pre
    /\ result.kind = "return"
    /\ Len(args.param_range) = 2
    /\ \A i \in 1..2 : args.param_range[i] # pre[args.param_name]
    /\ IsNaN(result.value.max_real_eigenvalue[1])
    /\ ~IsNaN(result.value.max_real_eigenvalue[2])
    /\ params = pre

\* C3: after continuation_1d returns for a parameter name other than the
\* intake rate, the mapping equals the mapping before the call.
C3_ContinuationRestoresParams ==
    (Done("continuation_1d") /\ args.param_name # "I") => params = pre

\* C4: after critical_transition_threshold returns for a parameter name other
\* than the intake rate, the mapping equals the mapping before the call.
C4_ThresholdRestoresParams ==
    (/\ Done("critical_transition_threshold")
     /\ args.param_name # "I"
     /\ result.kind = "return")
    => params = pre

\* C5: the sequences continuation_1d returns all have the length of
\* param_range, and the entry at index i is the outcome for param_range[i]:
\* the equilibrium (with its stability and leading eigenvalue) when the value
\* succeeded, the invalid entry when it failed.
C5_ContinuationAligned ==
    Done("continuation_1d") =>
        /\ result.kind = "return"
        /\ LET r == result.value
               n == Len(args.param_range)
           IN  /\ r.param_values = args.param_range
               /\ Len(r.steady_states) = n
               /\ ("stability" \in DOMAIN r) = args.track_stability
               /\ ("max_eigenvalue" \in DOMAIN r) = args.track_stability
               /\ args.track_stability =>
                    Len(r.stability) = n /\ Len(r.max_eigenvalue) = n
               /\ \A i \in 1..n :
                    /\ SweptKey(i) \in DOMAIN ssMemo
                    /\ r.steady_states[i] =
                         IF ValueFailed(i) THEN NaNVec ELSE Solved(i).y
                    /\ args.track_stability =>
                         /\ r.stability[i] =
                              (~ValueFailed(i) /\ AllNegative(Eigen(i).eigenvalues))
                         /\ r.max_eigenvalue[i] =
                              IF ValueFailed(i) THEN NaN
                              ELSE Largest(Eigen(i).eigenvalues)

\* C5 witness: a tracked sweep over two different values has returned a
\* valid entry followed by an invalid one.
C5_Witness ==
    /\ Done("continuation_1d")
    /\ args.track_stability
    /\ Len(args.param_range) = 2
    /\ args.param_range[1] # args.param_range[2]
    /\ result.value.steady_states[1] \in {yA, yB}
    /\ result.value.steady_states[2] = NaNVec
    /\ ~Solved(2).ok

\* C6: when the equilibrium solve or the stability analysis fails for the
\* value at index i, continuation_1d records the all-NaN state and stability
\* False at i, does not raise, and processes every later index.
C6_FailureRecordedSweepContinues ==
    (args.op = "continuation_1d" /\ pc \in {"cont_loop", "cont_solve", "done"}) =>
        /\ result.kind # "raise"
        /\ loc.i =< Len(args.param_range) + 1
        /\ \A i \in 1..Len(args.param_range) :
            i < loc.i =>
                /\ SweptKey(i) \in DOMAIN ssMemo
                /\ ValueFailed(i) =>
                    /\ loc.steady_states[i] = NaNVec
                    /\ loc.is_stable[i] = FALSE
        /\ pc = "done" =>
            /\ result.kind = "return"
            /\ loc.i = Len(args.param_range) + 1
            /\ result.value.steady_states = loc.steady_states
            /\ args.track_stability => result.value.stability = loc.is_stable

\* C6 witness: the stability analysis failed at the first of two values
\* after its equilibrium was found, and the second value has its equilibrium.
C6_Witness ==
    /\ Done("continuation_1d")
    /\ args.track_stability
    /\ Len(args.param_range) = 2
    /\ Solved(1).ok /\ Solved(1).y = yB /\ ~Eigen(1).ok
    /\ result.value.steady_states[1] = NaNVec
    /\ result.value.stability[1] = FALSE
    /\ result.value.steady_states[2] = yA

\* C7: with the default parameters every eigenvalue of the Jacobian at
\* baseline_state() under zero intake has a strictly negative real part, and
\* eigenanalysis reports is_stable.
C7_BaselineIsStable ==
    (/\ Done("eigenanalysis")
     /\ params = DefaultParameters
     /\ args.y = baseline_state(params)
     /\ args.I_const = 0)
    => /\ result.kind = "return"
       /\ \A k \in 1..5 : result.value.real_parts[k] < 0
       /\ result.value.is_stable

\* C8: parameter_sensitivity, continuation_1d and
\* critical_transition_threshold fail at once on an unknown parameter or
\* state-variable name: an error is raised, no value is processed and the
\* parameter mapping is not modified.
C8_UnknownNameFailsAtOnce ==
    (/\ pc = "done"
     /\ \/ /\ args.op \in {"parameter_sensitivity", "continuation_1d",
                           "critical_transition_threshold"}
           /\ args.param_name \notin DOMAIN pre \cup {"I"}
        \/ /\ args.op = "critical_transition_threshold"
           /\ args.threshold_var \notin DOMAIN var_indices)
    => /\ result.kind = "raise"
       /\ DOMAIN ssMemo = {}
       /\ params = pre

\* The solver's outcome at an endpoint p of the search range, and f there
EndpointOutcome(p) ==
    ssMemo[SSKey(IF args.param_name = "I" THEN pre ELSE SetItem(pre, args.param_name, p),
                 IF args.param_name = "I" THEN p ELSE 0, TRUE)]
EndpointFails(p) ==
    \/ ~EndpointOutcome(p).ok
    \/ IsNaN(EndpointOutcome(p).y[var_indices[args.threshold_var]])
EndpointF(p) ==
    EndpointOutcome(p).y[var_indices[args.threshold_var]] - args.threshold_value

\* C9: critical_transition_threshold returns None, and does not raise, when
\* f fails at an endpoint of the search range or has the same strict sign at
\* both endpoints.
C9_NotFoundWhenNotBracketed ==
    (/\ Done("critical_transition_threshold")
     /\ args.threshold_var \in DOMAIN var_indices
     /\ LET lo == args.param_range[1]
            hi == args.param_range[2]
        IN  \/ EndpointFails(lo) \/ EndpointFails(hi)
            \/ (EndpointF(lo) > 0 /\ EndpointF(hi) > 0)
            \/ (EndpointF(lo) < 0 /\ EndpointF(hi) < 0))
    => result = Return(<<>>)

\* C9 witness: f is positive at both endpoints, at two different equilibria,
\* and None was returned.
C9_Witness ==
    /\ Done("critical_transition_threshold")
    /\ args.threshold_var = "D"
    /\ ~EndpointFails(args.param_range[1])
    /\ ~EndpointFails(args.param_range[2])
    /\ EndpointF(args.param_range[1]) > 0
    /\ EndpointF(args.param_range[2]) > EndpointF(args.param_range[1])
    /\ result = Return(<<>>)

\* The intervals of an ascending and a descending range do not overlap
NoOverlap(up, down) ==
    /\ Len(up) > 0 /\ Len(down) > 0
    /\ IsAscending(up) /\ IsDescending(down)
    /\ (up[Len(up)] < down[Len(down)] \/ down[1] < up[1])

\* C10: for an ascending range_up and a descending range_down whose
\* intervals do not overlap, hysteresis_loop returns hysteresis_width 0.
C10_NoOverlapZeroWidth ==
    (Done("hysteresis_loop") /\ NoOverlap(args.param_range, args.range_down))
    => (result.kind = "return" /\ result.value.hysteresis_width = 0)

\* C10 witness: the ranges do not overlap, the two sweeps found different
\* levels of D, and the width is 0.
C10_Witness ==
    /\ Done("hysteresis_loop")
    /\ NoOverlap(args.param_range, args.range_down)
    /\ result.kind = "return"
    /\ result.value.up_sweep.steady_states[1] = yA
    /\ result.value.down_sweep.steady_states[1] = yB
    /\ result.value.hysteresis_width = 0

\* The parameter intervals of an ascending and a descending range overlap
Overlap(up, down) ==
    /\ Len(up) > 0 /\ Len(down) > 0
    /\ IsAscending(up) /\ IsDescending(down)
    /\ up[1] =< down[1] /\ down[Len(down)] =< up[Len(up)]

\* The parameter values of the overlap at which both sweeps have an entry
OverlapValues(up, down) ==
    {up[k] : k \in 1..Len(up)} \cap {down[k] : k \in 1..Len(down)}

\* The level of D a sweep over range r found at the parameter value p
DAt(sweep, r, p) ==
    sweep.steady_states[CHOOSE k \in 1..Len(r) : r[k] = p][iD]

\* The largest |D_up(p) - D_down(p)| over the values p of the overlap
BranchGap(val) ==
    LET gaps == {FAbs(FSub(DAt(val.up_sweep, args.param_range, p),
                           DAt(val.down_sweep, args.range_down, p))) :
                    p \in OverlapValues(args.param_range, args.range_down)}
    IN  CHOOSE m \in gaps :
            \A g \in gaps : IsNaN(g) \/ (~IsNaN(m) /\ g =< m)

\* C11: when the intervals of range_up and range_down overlap,
\* hysteresis_loop returns as hysteresis_width the largest absolute
\* difference, over the parameter values of the overlap, between the
\* up-sweep's and the down-sweep's level of D at that parameter value
\* (stated for sweeps that found a finite level at every value).
C11_WidthIsBranchGap ==
    (/\ Done("hysteresis_loop")
     /\ Overlap(args.param_range, args.range_down)
     /\ OverlapValues(args.param_range, args.range_down) # {}
     /\ \A k \in 1..Len(loc.up_sweep.steady_states) :
            ~IsNaN(loc.up_sweep.steady_states[k][iD])
     /\ \A k \in 1..Len(loc.steady_states) : ~IsNaN(loc.steady_states[k][iD]))
    => /\ result.kind = "return"
       /\ result.value.hysteresis_width = BranchGap(result.value)

\* The solver's outcome for the i-th intake value of the classifier
ClassOutcome(i) == ssMemo[SSKey(pre, args.I_values[i], TRUE)]

\* (level - base) / base < tn / td, for a level in units of 1/YU and a
\* positive base in units of 1/PU; no NaN is below anything
IncreaseBelow(level, base, tn, td) ==
    /\ ~IsNaN(level)
    /\ td * (level * PU - base * YU) < tn * base * YU

\* The label the rule gives the equilibrium y
RuleLabel(y) ==
    LET casual == /\ IncreaseBelow(y[iD], pre.D_0, 20, 100)
                  /\ IncreaseBelow(y[iRT], pre.R_T_0, 5, 100)
        regular == /\ IncreaseBelow(y[iD], pre.D_0, 50, 100)
                   /\ IncreaseBelow(y[iRT], pre.R_T_0, 15, 100)
    IN  CHOOSE label \in {"Casual", "Regular", "Dependent"} :
            /\ (label = "Casual") = casual
            /\ ~casual => ((label = "Regular") = regular)

\* C12: intake_regime_classifier labels an intake value whose equilibrium
\* solve succeeds "Casual" iff d < 0.20 and r < 0.05, otherwise "Regular"
\* iff d < 0.50 and r < 0.15, otherwise "Dependent", where
\* d = (D_ss - D_0) / D_0 and r = (R_T_ss - R_T_0) / R_T_0; it labels the
\* value "Undefined" iff the solve fails.
C12_RegimeFollowsRule ==
    Done("intake_regime_classifier") =>
        /\ result.kind = "return"
        /\ Len(result.value.regime) = Len(args.I_values)
        /\ \A i \in 1..Len(args.I_values) :
            /\ SSKey(pre, args.I_values[i], TRUE) \in DOMAIN ssMemo
            /\ (result.value.regime[i] = "Undefined") = ~ClassOutcome(i).ok
            /\ ClassOutcome(i).ok =>
                 result.value.regime[i] = RuleLabel(ClassOutcome(i).y)

\* C12 witness: two intake values were classified, the first as "Regular"
\* with no rise of D and a rise of R_T by a tenth, the second as "Dependent".
C12_Witness ==
    /\ Done("intake_regime_classifier")
    /\ Len(args.I_values) = 2
    /\ ClassOutcome(1).ok /\ ClassOutcome(1).y = yC
    /\ ClassOutcome(2).ok /\ ClassOutcome(2).y = yB
    /\ result.value.regime = <<"Regular", "Dependent">>

\* C14: parameter_sensitivity (for a key of the parameter mapping) and
\* intake_regime_classifier return sequences of the length of their input,
\* aligned with it: a value that failed has NaN and False, or NaN levels and
\* "Undefined", at its own index, and every other value has its outcome.
C14_SweepsCompleteAligned ==
    /\ (Done("parameter_sensitivity") /\ args.param_name \in DOMAIN pre) =>
        /\ result.kind = "return"
        /\ LET r == result.value
               n == Len(args.param_range)
           IN  /\ r.param_values = args.param_range
               /\ Len(r.max_real_eigenvalue) = n
               /\ Len(r.is_stable) = n
               /\ \A i \in 1..n :
                    /\ SweptKey(i) \in DOMAIN ssMemo
                    /\ IF ~Solved(i).ok \/ ~Eigen(i).ok
                       THEN IsNaN(r.max_real_eigenvalue[i]) /\ r.is_stable[i] = FALSE
                       ELSE /\ r.max_real_eigenvalue[i] = Largest(Eigen(i).eigenvalues)
                            /\ r.is_stable[i] = AllNegative(Eigen(i).eigenvalues)
    /\ Done("intake_regime_classifier") =>
        /\ result.kind = "return"
        /\ LET r == result.value
               n == Len(args.I_values)
           IN  /\ r.intake_rates = args.I_values
               /\ Len(r.dopamine_levels) = n
               /\ Len(r.receptor_upregulation) = n
               /\ Len(r.regime) = n
               /\ \A i \in 1..n :
                    /\ SSKey(pre, args.I_values[i], TRUE) \in DOMAIN ssMemo
                    /\ IF ~ClassOutcome(i).ok
                       THEN /\ IsNaN(r.dopamine_levels[i])
                            /\ IsNaN(r.receptor_upregulation[i])
                            /\ r.regime[i] = "Undefined"
                       ELSE /\ r.dopamine_levels[i] = ClassOutcome(i).y[iD]
                            /\ r.regime[i] # "Undefined"
                            /\ IsNaN(r.receptor_upregulation[i])
                                 = IsNaN(ClassOutcome(i).y[iRT])

\* C14 witness: the classifier's first value failed and its second value,
\* a different intake, has its levels and a label.
C14_Witness ==
    /\ Done("intake_regime_classifier")
    /\ Len(args.I_values) = 2
    /\ args.I_values[1] # args.I_values[2]
    /\ ~ClassOutcome(1).ok
    /\ ClassOutcome(2).ok /\ ClassOutcome(2).y = yA
    /\ result.value.regime = <<"Undefined", "Casual">>
    /\ IsNaN(result.value.dopamine_levels[1])
    /\ result.value.dopamine_levels[2] = yA[iD]

\* The evaluation grid of the running call of simulate
EvaluationGrid ==
    IF args.t_eval = <<>>
    THEN [k \in 1..1000 |->
            args.t_span[1] + (k - 1) * ((args.t_span[2] - args.t_span[1]) \div 999)]
    ELSE args.t_eval[1]

\* C15: simulate returns a trajectory with a sample at every point of the
\* evaluation grid (1000 uniform points when none is given) or raises an
\* error carrying the solver's message; it raises whenever the solver
\* reports failure, and steady_state lets that error through.
C15_TrajectoryOrFailure ==
    /\ Done("simulate") =>
        IF loc.sol.success
        THEN /\ result.kind = "return"
             /\ result.value.t = EvaluationGrid
             /\ \A c \in {"N", "R_a", "R_d", "R_T", "D"} :
                    Len(result.value[c]) = Len(EvaluationGrid)
        ELSE /\ result.kind = "raise"
             /\ result.value[1] = "RuntimeError"
             /\ result.value[3] = loc.sol.message
    /\ Done("steady_state") =>
        IF loc.sol.success
        THEN result.kind = "return"
        ELSE /\ result.kind = "raise"
             /\ result.value[1] = "RuntimeError"
             /\ result.value[3] = loc.sol.message

\* C15 witness: the solver gave up on the default grid with all but one of
\* the samples, and simulate raised.
C15_Witness ==
    /\ Done("simulate")
    /\ args.t_eval = <<>>
    /\ ~loc.sol.success
    /\ Len(loc.sol.t) = 999
    /\ result.kind = "raise"

\* C16: on every solution of the dynamics started from the baseline state
\* under a non-negative intake, R_a + R_d <= R_T (within 1e-6, which is
\* below the grid) at every time.
C16_ReceptorsConserved ==
    (/\ pc = "flow"
     /\ args.y = baseline_state(params)
     /\ args.I_const >= 0)
    => loc.y[iRa] + loc.y[iRd] =< loc.y[iRT]

\* The state y with its component c one grid step (1/YU) higher
Raised(y, c) == [k \in 1..5 |-> IF k = c THEN y[k] + 1 ELSE y[k]]

\* The partial derivative of component r of the dynamics with respect to
\* component c at y, in the unit of the Jacobian, 1/(PU*YU): the dynamics
\* is linear in each component on either side of R_T - R_a - R_d = 0, so
\* the derivative is the difference over one grid step
Partial(p, y, I, r, c) ==
    LET dF == dynamics(p, Raised(y, c), I)[r] - dynamics(p, y, I)[r]
    IN  IF r = iRa THEN dF
        ELSE IF r = iRT THEN (dF * YU) \div PU
        ELSE dF * YU

\* C19: jacobian(y, I_const) equals, entry by entry, the partial derivatives
\* of the dynamics at y, also where R_T - R_a - R_d < 0 and the dynamics
\* clamps the available fraction to 0 (the derivative does not exist where
\* R_T - R_a - R_d = 0).
C19_JacobianIsDerivative ==
    (/\ Done("jacobian")
     /\ args.y[iRT] - args.y[iRa] - args.y[iRd] # 0)
    => \A r \in 1..5 : \A c \in 1..5 :
          result.value[r][c] = Partial(params, args.y, args.I_const, r, c)

\* C20: eigenanalysis reports is_stable iff every eigenvalue of the Jacobian
\* has a strictly negative real part, and for each mode the timescale
\* 1/|real part|, which is NaN exactly when the real part is zero.
C20_StableIffAllNegative ==
    (Done("eigenanalysis") /\ result.kind = "return") =>
        LET r == result.value
        IN  /\ [ok |-> TRUE, eigenvalues |-> r.eigenvalues]
                  \in eig(jacobian(params, args.y, args.I_const))
            /\ r.is_stable = (\A k \in 1..5 : r.eigenvalues[k].re < 0)
            /\ \A k \in 1..5 :
                 LET re == r.eigenvalues[k].re
                 IN  /\ (r.timescales[k] = RatNaN) = (re = 0)
                     /\ re # 0 =>
                          r.timescales[k] =
                              [num |-> 1, den |-> IF re < 0 THEN 0 - re ELSE re]

\* C20 witness: one eigenvalue is zero and the others are negative;
\* is_stable is False and exactly the zero mode has the timescale NaN.
C20_Witness ==
    /\ Done("eigenanalysis")
    /\ result.kind = "return"
    /\ \E z \in 1..5 :
        /\ result.value.eigenvalues[z].re = 0
        /\ result.value.timescales[z] = RatNaN
        /\ \A k \in (1..5) \ {z} :
            /\ result.value.eigenvalues[k].re < 0
            /\ result.value.timescales[k] # RatNaN
    /\ result.value.is_stable = FALSE

ForeignValue(t) ==
    \E k \in 1..Len(loc[t].under) :
        loc[t].under[k] # SetItem(pre, ParName, loc[t].param_range[k])

\* C22: when two sweeps (parameter_sensitivity or continuation_1d over a
\* model parameter) on one model and one parameter run one after the other,
\* every equilibrium is computed under the value its own sweep set, with
\* every other parameter as before the calls, and whenever no sweep is
\* running the parameter mapping equals the mapping before both calls.
\* (That interleaved steps break both is the state C22_Witness reaches.)
C22_SequentialSweepsIsolated ==
    (\A t \in Threads : ~loc[t].overlapped) =>
        /\ \A t \in Threads : ~ForeignValue(t)
        /\ (\A t \in Threads : ~Busy(t)) => params = pre

\* C22 witness: the steps of the two sweeps were interleaved, a sweep
\* computed an equilibrium under a value it had not set, and after both
\* returned the parameter mapping differs from the mapping before the calls.
C22_Witness ==
    /\ \A t \in Threads : pc[t] = "done"
    /\ \E t \in Threads : loc[t].overlapped
    /\ \E t \in Threads : ForeignValue(t)
    /\ params # pre

\* The D column of the continuation result detect_bifurcations was given,
\* entry i counted from 0
CurveD(i) == args.continuation_result.steady_states[i + 1][iD]

CurveLen == Len(args.continuation_result.steady_states)

\* Entry i is valid, both neighbours are valid, and it lies strictly above
\* both or strictly below both
StrictExtremum(i) ==
    /\ CurveD(i) # NaN /\ CurveD(i - 1) # NaN /\ CurveD(i + 1) # NaN
    /\ \/ CurveD(i) > CurveD(i - 1) /\ CurveD(i) > CurveD(i + 1)
       \/ CurveD(i) < CurveD(i - 1) /\ CurveD(i) < CurveD(i + 1)

Listed(q) == {q[k] : k \in 1..Len(q)}

\* C23: the fold indices detect_bifurcations reports are exactly the interior
\* indices i (0 < i < n - 1) whose D entry is valid and strictly greater than
\* both neighbours or strictly less than both; an index whose own entry or
\* either neighbour is NaN is never reported, nor is the first or the last.
C23_FoldsAreInteriorStrictExtrema ==
    Done("detect_bifurcations") =>
        LET folds == result.value.saddle_node_indices
        IN  /\ Listed(folds) = {i \in 1..(CurveLen - 2) : StrictExtremum(i)}
            /\ \A i \in Listed(folds) :
                 /\ 0 < i /\ i < CurveLen - 1
                 /\ NaN \notin {CurveD(i - 1), CurveD(i), CurveD(i + 1)}

\* C23 witness: of two interior indices that lie above or below their valid
\* neighbours, the one with a NaN neighbour is left out and the other is
\* reported.
C23_Witness ==
    /\ Done("detect_bifurcations")
    /\ CurveLen = 4
    /\ CurveD(0) < CurveD(1) /\ CurveD(2) < CurveD(1) /\ CurveD(2) # NaN
    /\ CurveD(3) = NaN
    /\ result.value.saddle_node_indices = <<1>>

\* C24: the stability-change indices are exactly the indices i >= 1 with
\* stability[i] different from stability[i-1]; the list is empty when the
\* result has no stability sequence; a failed entry (recorded as not stable)
\* between two stable entries gives two reported changes.
C24_StabilityChangesAreFlips ==
    Done("detect_bifurcations") =>
        LET r == args.continuation_result
            changes == result.value.stability_change_indices
        IN  IF "stability" \in DOMAIN r
            THEN /\ Listed(changes) =
                      {i \in 1..(Len(r.stability) - 1) :
                          r.stability[i + 1] # r.stability[i]}
                 /\ \A i \in 1..(Len(r.stability) - 2) :
                      (/\ r.steady_states[i + 1] = NaNVec
                       /\ r.stability[i] /\ r.stability[i + 2])
                          => {i, i + 1} \subseteq Listed(changes)
            ELSE changes = <<>>

\* C24 witness: a failed entry between two stable entries, reported as two
\* changes.
C24_Witness ==
    /\ Done("detect_bifurcations")
    /\ "stability" \in DOMAIN args.continuation_result
    /\ args.continuation_result.stability = <<TRUE, FALSE, TRUE>>
    /\ args.continuation_result.steady_states[2] = NaNVec
    /\ result.value.stability_change_indices = <<1, 2>>

\* C25: in continuation_1d, for the intake name the parameter mapping is
\* never written during the sweep and the equilibrium at index i is computed
\* with constant intake param_range[i]; for any other name it is computed
\* with the named parameter equal to param_range[i], every other parameter
\* as before the call, and constant intake 0.
C25_IntakeOrParameterVaried ==
    args.op = "continuation_1d" =>
        /\ args.param_name = "I" => params = pre
        /\ pc = "cont_solve" =>
             LET v == args.param_range[loc.i]
             IN  /\ params = IF args.param_name = "I" THEN pre
                             ELSE SetItem(pre, args.param_name, v)
                 /\ loc.I_const = IF args.param_name = "I" THEN v ELSE 0
        /\ \A i \in 1..(loc.i - 1) :
             SSKey(IF args.param_name = "I" THEN pre
                   ELSE SetItem(pre, args.param_name, args.param_range[i]),
                   IF args.param_name = "I" THEN args.param_range[i] ELSE 0,
                   args.include_upregulation) \in DOMAIN ssMemo

\* C25 witness: an intake sweep is about to compute its second equilibrium,
\* at an intake other than the first, with the mapping untouched.
C25_Witness ==
    /\ args.op = "continuation_1d"
    /\ args.param_name = "I"
    /\ pc = "cont_solve"
    /\ loc.i = 2
    /\ loc.I_const = args.param_range[2]
    /\ args.param_range[2] # args.param_range[1]
    /\ SSKey(pre, args.param_range[1], args.include_upregulation) \in DOMAIN ssMemo
    /\ params = pre

\* f is defined at both endpoints of the search range and the two values do
\* not have the same strict sign
Bracketed ==
    LET lo == args.param_range[1]
        hi == args.param_range[2]
    IN  /\ ~EndpointFails(lo) /\ ~EndpointFails(hi)
        /\ ~(EndpointF(lo) > 0 /\ EndpointF(hi) > 0)
        /\ ~(EndpointF(lo) < 0 /\ EndpointF(hi) < 0)

\* C26: when f is defined at both endpoints of the search range and the
\* endpoint values do not have the same strict sign, a value returned by
\* critical_transition_threshold lies in [lo, hi]; when an endpoint value is
\* exactly zero the root search is attempted (brentq evaluates f) rather than
\* the call ending with "not found" at the bracket test.
C26_RootWithinBracket ==
    (/\ Done("critical_transition_threshold")
     /\ args.threshold_var \in DOMAIN var_indices
     /\ Bracketed)
    => /\ result.kind = "return"
       /\ result.value # <<>> =>
            /\ args.param_range[1] =< result.value[1]
            /\ result.value[1] =< args.param_range[2]
       /\ (EndpointF(args.param_range[1]) = 0 \/ EndpointF(args.param_range[2]) = 0)
            => loc.evaluated # {}

\* C26 witness: f is zero at the lower endpoint and positive at the upper
\* one; the search ran and returned the lower endpoint.
C26_Witness ==
    /\ Done("critical_transition_threshold")
    /\ args.threshold_var \in DOMAIN var_indices
    /\ Bracketed
    /\ EndpointF(args.param_range[1]) = 0
    /\ EndpointF(args.param_range[2]) > 0
    /\ loc.evaluated = {args.param_range[1], args.param_range[2]}
    /\ result = Return(<<args.param_range[1]>>)

Reversed(q) == [k \in 1..Len(q) |-> q[Len(q) + 1 - k]]

\* The entries of two continuation results at positions i and j agree
SameEntry(r1, i, r2, j) ==
    /\ r1.steady_states[i] = r2.steady_states[j]
    /\ ("stability" \in DOMAIN r1 /\ "stability" \in DOMAIN r2) =>
         /\ r1.stability[i] = r2.stability[j]
         /\ r1.max_eigenvalue[i] = r2.max_eigenvalue[j]

C28_InvalidEntriesAgree ==
    (Done("continuation_1d") /\ args.track_stability) =>
        LET r == result.value
        IN  \A i \in 1..Len(args.param_range) :
              /\ (r.steady_states[i] = NaNVec) = (r.max_eigenvalue[i] = NaN)
              /\ r.steady_states[i] = NaNVec => ~r.stability[i]
              /\ (Solved(i).ok /\ ~Eigen(i).ok) => r.steady_states[i] = NaNVec

\* C28 witness: the solve found a finite equilibrium, the eigenvalue
\* computation failed on it, and the entry holds NaN in all three sequences.
C28_Witness ==
    /\ Done("continuation_1d")
    /\ args.track_stability
    /\ \E i \in 1..Len(args.param_range) :
        /\ Solved(i).ok
        /\ Solved(i).y = yB
        /\ ~Eigen(i).ok
        /\ result.value.steady_states[i] = NaNVec
        /\ result.value.max_eigenvalue[i] = NaN
        /\ ~result.value.stability[i]

\* C29: steady_state(I_const, include_upregulation = False) holds R_T at
\* its baseline value R_T_0 throughout the warm-start integration, which is
\* simulate from baseline_state() under the constant intake (stated for the
\* intake 0, whose solutions SpecFlow follows).
C29_WarmStartHoldsReceptorTotal ==
    (/\ pc = "flow"
     /\ args.y = baseline_state(params)
     /\ args.I_const = 0)
    => loc.y[iRT] = baseline_state(params)[iRT]

\* C30: for every ascending range_up and descending range_down whose
\* parameter intervals overlap, hysteresis_loop does not raise and returns a
\* record with a hysteresis_width (a float, NaN included), whatever the
\* numbers of points the two sweeps have inside the overlap and whether or
\* not the overlapping entries are valid.
C30_OverlappingRangesGiveWidth ==
    (/\ Done("hysteresis_loop")
     /\ Overlap(args.param_range, args.range_down))
    => /\ result.kind = "return"
       /\ "hysteresis_width" \in DOMAIN result.value

=============================================================================
